---- MODULE Spec2Model ----
(***************************************************************************)
(* Reconciliation of a scraped shift schedule against one Google calendar. *)
(* The model follows get-schedule/get-schedule.js (the sync driver),       *)
(* get-schedule/google-calendar/add-event.js (syncEvent, purgeRhinoEvents) *)
(* and get-schedule/utils.js (the event mapper).                           *)
(*                                                                         *)
(* Time is counted in minutes.  The remote calendar is a map from event id *)
(* to event; every remote call is one step, because the driver awaits each *)
(* call before it issues the next one.                                     *)
(***************************************************************************)
EXTENDS Integers, Sequences, FiniteSets, TLC

(* ---- bounds of the model ---- *)
NCalls == 2
NRand == 1
MaxEvents == 2

(* ---- program constants ---- *)
BUFFER_MINUTES == 30
END_HOURS == 5
OLD_END_MINUTES == 60

(* ---- text ---- *)
(* values of JavaScript that are not text *)
null == "<null>"
undefined == "<undefined>"

toLowerCase(s) ==
  CASE s = "Confirmed" -> "confirmed"
    [] s = "Called" -> "called"
    [] s = "CALLED" -> "called"
    [] s = "cAlLeD" -> "called"
    [] s = "Tentative" -> "tentative"
    [] s = "TENTATIVE" -> "tentative"
    [] s = "Cancelled" -> "cancelled"
    [] s = "CANCELLED" -> "cancelled"
    [] s = "Canceled" -> "canceled"
    [] s = "CANCELED" -> "canceled"
    [] s = "Called Out" -> "called out"
    [] s = "CANCELLED B" -> "cancelled b"
    [] s = "Show Cancelled" -> "show cancelled"
    [] s = "Canceled C" -> "canceled c"
    [] s = "CALLED OUT - sick" -> "called out - sick"
    [] s = "Call Cancelled" -> "call cancelled"
    [] s = "CALL CANCELLED" -> "call cancelled"
    [] s = "Call Cancelled by client" -> "call cancelled by client"
    [] OTHER -> s

(* num.toString().padStart(2, "0") *)
pad(num) == IF num < 10 THEN "0" \o ToString(num) ELSE ToString(num)

(* Array.prototype.join; a text that the code splits is kept as the sequence
   of its parts, so join(parts, separator) is the raw text *)
RECURSIVE join(_, _)
join(parts, separator) ==
  IF Len(parts) = 0 THEN ""
  ELSE IF Len(parts) = 1 THEN parts[1]
  ELSE parts[1] \o separator \o join(Tail(parts), separator)

(* filter(Boolean) on texts *)
Boolean(text) == text # ""

(* Number(text) for the numerals of dates and times: 0 for the empty text,
   NaN for any other text *)
Years == 2025..2027
NumberOf ==
  LET NumeralValues == 0..59 \cup Years
  IN [text \in {ToString(n) : n \in NumeralValues} \cup {pad(n) : n \in 0..9} \cup {""} |->
        IF text = "" THEN 0 ELSE CHOOSE n \in NumeralValues : text \in {ToString(n), pad(n)}]
isNaN(text) == text \notin DOMAIN NumberOf
Number(text) == NumberOf[text]

(* ---- Date ---- *)
(* A time value counts minutes from 2026-03-07 00:00 Eastern Standard Time.
   The machine runs in America/New_York, the zone the events are sent with:
   in 2026 the clocks go from 02:00 to 03:00 on March 8 and from 02:00 back to
   01:00 on November 1. *)
DayFromYear(y) ==
  365 * (y - 1970) + ((y - 1969) \div 4) - ((y - 1901) \div 100) + ((y - 1601) \div 400)

DaysInMonth(y, m) ==
  CASE m = 1 -> IF (y % 4 = 0 /\ y % 100 # 0) \/ y % 400 = 0 THEN 29 ELSE 28
    [] m \in {3, 5, 8, 10} -> 30
    [] OTHER -> 31

(* the days of year y before month m, m in 0..12 *)
RECURSIVE DaysBeforeMonth(_, _)
DaysBeforeMonth(y, m) ==
  IF m = 0 THEN 0 ELSE DaysBeforeMonth(y, m - 1) + DaysInMonth(y, m - 1)

MakeDay(year, month, date) ==
  LET ym == year + (month \div 12)
      mn == month % 12
  IN DayFromYear(ym) + DaysBeforeMonth(ym, mn) + date - 1

MakeTime(hour, min) == hour * 60 + min

MakeDate(day, time) == (day - MakeDay(2026, 2, 7)) * (24 * 60) + time

Day(t) == (t \div (24 * 60)) + MakeDay(2026, 2, 7)

YearFromTime(t) == CHOOSE y \in Years : DayFromYear(y) <= Day(t) /\ Day(t) < DayFromYear(y + 1)

MonthFromTime(t) ==
  LET DayWithinYear == Day(t) - DayFromYear(YearFromTime(t))
  IN CHOOSE m \in 0..11 :
       /\ DaysBeforeMonth(YearFromTime(t), m) <= DayWithinYear
       /\ DayWithinYear < DaysBeforeMonth(YearFromTime(t), m + 1)

DateFromTime(t) ==
  LET DayWithinYear == Day(t) - DayFromYear(YearFromTime(t))
  IN DayWithinYear - DaysBeforeMonth(YearFromTime(t), MonthFromTime(t)) + 1

HourFromTime(t) == (t % (24 * 60)) \div 60

MinFromTime(t) == t % 60

SpringForward == MakeDate(MakeDay(2026, 2, 8), MakeTime(2, 0))
FallBack == MakeDate(MakeDay(2026, 10, 1), MakeTime(1, 0))

LocalTime(t) == t + (IF SpringForward <= t /\ t < FallBack THEN 60 ELSE 0)

(* a local time that the clocks skip is read with the offset in force before
   the change; one that occurs twice is read as the earlier instant *)
UTC(t) == IF SpringForward + 60 <= t /\ t < FallBack + 60 THEN t - 60 ELSE t

InvalidDate == [valid |-> FALSE, time |-> 0]

(* new Date(year, monthIndex, day, hours, minutes) *)
Date(year, monthIndex, day, hours, minutes) ==
  [valid |-> TRUE, time |-> UTC(MakeDate(MakeDay(year, monthIndex, day), MakeTime(hours, minutes)))]

getFullYear(d) == YearFromTime(LocalTime(d.time))
getMonth(d) == MonthFromTime(LocalTime(d.time))
getDate(d) == DateFromTime(LocalTime(d.time))
getHours(d) == HourFromTime(LocalTime(d.time))
getMinutes(d) == MinFromTime(LocalTime(d.time))

setMinutes(d, min) ==
  [valid |-> TRUE,
   time |-> UTC(MakeDate(Day(LocalTime(d.time)), MakeTime(getHours(d), min)))]

setHours(d, hour) ==
  [valid |-> TRUE,
   time |-> UTC(MakeDate(Day(LocalTime(d.time)), MakeTime(hour, getMinutes(d))))]

(* "YYYY-MM-DDTHH:mm:ss.sssZ": the fields of the instant in UTC, five hours
   ahead of Eastern Standard Time *)
toISOString(d) ==
  LET t == d.time + 5 * 60
  IN ToString(YearFromTime(t)) \o "-" \o pad(MonthFromTime(t) + 1) \o "-" \o pad(DateFromTime(t))
     \o "T" \o pad(HourFromTime(t)) \o ":" \o pad(MinFromTime(t)) \o ":00.000Z"

(* ---- utils.js ---- *)
(* variant: noon and the hour after it are labelled am *)
formatTimeForTitle_NoonAm(timeStr) ==
  LET hours == Number(timeStr[1])
      minutes == Number(timeStr[2])
      hour12 == IF hours % 12 = 0 THEN 12 ELSE hours % 12
      ampm == IF hours <= 12 THEN "am" ELSE "pm"
  IN IF minutes = 0 THEN ToString(hour12) \o ampm
     ELSE ToString(hour12) \o ":" \o pad(minutes) \o ampm

(* timeStr is "HH:MM", kept as its parts <<"HH", "MM">> *)
formatTimeForTitle(timeStr) ==
  LET hours == Number(timeStr[1])
      minutes == Number(timeStr[2])
      hour12 == IF hours % 12 = 0 THEN 12 ELSE hours % 12
      ampm == IF hours < 12 THEN "am" ELSE "pm"
  IN IF minutes = 0 THEN ToString(hour12) \o ampm
     ELSE ToString(hour12) \o ":" \o pad(minutes) \o ampm

formatDateTimeForTimezone(year, month, day, hours, minutes) ==
  ToString(year) \o "-" \o pad(month) \o "-" \o pad(day)
  \o "T" \o pad(hours) \o ":" \o pad(minutes) \o ":00"

(* variant: the status is compared as it was scraped *)
normalizeStatus_CaseSensitive(status) ==
  IF status \in {"", null, undefined} THEN "confirmed"
  ELSE IF status = "called" THEN "tentative"
       ELSE IF status = "cancelled" \/ status = "canceled" THEN "cancelled"
       ELSE IF status = "tentative" THEN "tentative"
       ELSE "confirmed"

normalizeStatus(status) ==
  IF status \in {"", null, undefined} THEN "confirmed"
  ELSE LET lower == toLowerCase(status) IN
       IF lower = "called" THEN "tentative"
       ELSE IF lower = "cancelled" \/ lower = "canceled" THEN "cancelled"
       ELSE IF lower = "tentative" THEN "tentative"
       ELSE "confirmed"

includesCancelled(lower) ==
  lower \in {"cancelled", "cancelled b", "show cancelled", "call cancelled",
             "call cancelled by client"}

includesCalledOut(lower) == lower \in {"called out", "called out - sick"}

(* the scrape: callCancelledCell.toLowerCase() === "call cancelled" *)
isCallCancelledCell(callCancelledCell) == toLowerCase(callCancelledCell) = "call cancelled"

(* variant: the show and the status are compared as they were scraped *)
isEventCancelled_CaseSensitive(entry) ==
  \/ entry.isCallCancelled
  \/ includesCancelled(entry.show)
  \/ includesCalledOut(entry.status)

isEventCancelled(entry) ==
  \/ entry.isCallCancelled
  \/ includesCancelled(toLowerCase(entry.show))
  \/ includesCalledOut(toLowerCase(entry.status))

(* the natural key: the raw text of the six key fields, joined *)
RowIdOf(entry) ==
  join(<<join(entry.date, "/"), join(entry.callTime, ":"), entry.show, entry.venue,
         entry.position, entry.type>>, " | ")

NoRowId == ""

(* variant: the status is one of the joined key fields *)
toGoogleEvent_StatusInKey(entry) ==
  LET callTimeDate == Date(Number(entry.date[3]), Number(entry.date[1]) - 1, Number(entry.date[2]),
                           Number(entry.callTime[1]), Number(entry.callTime[2]))
      startDate == setMinutes(callTimeDate, getMinutes(callTimeDate) - BUFFER_MINUTES)
      endDate == setHours(callTimeDate, getHours(callTimeDate) + END_HOURS)
      isCalled == toLowerCase(entry.status) = "called"
      showTitle == IF isCalled THEN "UNCONFIRMED => " \o entry.show ELSE entry.show
      startTimeStr == <<pad(getHours(startDate)), pad(getMinutes(startDate))>>
  IN [ summary |-> IF isCalled THEN showTitle
                   ELSE formatTimeForTitle(startTimeStr) \o " " \o showTitle,
       location |-> join(SelectSeq(<<entry.venue, entry.location>>, Boolean), " - "),
       description |-> join(SelectSeq(<<entry.details, entry.notes>>, Boolean), " | "),
       start |-> formatDateTimeForTimezone(getFullYear(startDate), getMonth(startDate) + 1,
                   getDate(startDate), getHours(startDate), getMinutes(startDate)),
       end |-> formatDateTimeForTimezone(getFullYear(endDate), getMonth(endDate) + 1,
                 getDate(endDate), getHours(endDate), getMinutes(endDate)),
       status |-> normalizeStatus(entry.status),
       rowId |-> RowIdOf(entry) \o " | " \o entry.status ]

toGoogleEvent(entry) ==
  LET month == Number(entry.date[1])
      day == Number(entry.date[2])
      year == Number(entry.date[3])
      hours == Number(entry.callTime[1])
      minutes == Number(entry.callTime[2])
      callTimeDate == Date(year, month - 1, day, hours, minutes)
      startDate == setMinutes(callTimeDate, getMinutes(callTimeDate) - BUFFER_MINUTES)
      endDate == setHours(callTimeDate, getHours(callTimeDate) + END_HOURS)
      startStr == formatDateTimeForTimezone(getFullYear(startDate), getMonth(startDate) + 1,
                    getDate(startDate), getHours(startDate), getMinutes(startDate))
      endStr == formatDateTimeForTimezone(getFullYear(endDate), getMonth(endDate) + 1,
                  getDate(endDate), getHours(endDate), getMinutes(endDate))
      isCalled == toLowerCase(entry.status) = "called"
      showTitle == IF isCalled THEN "UNCONFIRMED => " \o entry.show ELSE entry.show
      startTimeStr == <<pad(getHours(startDate)), pad(getMinutes(startDate))>>
      formattedTime == formatTimeForTitle(startTimeStr)
  IN [ summary |-> IF isCalled THEN showTitle ELSE formattedTime \o " " \o showTitle,
       location |-> join(SelectSeq(<<entry.venue, entry.location>>, Boolean), " - "),
       description |-> join(SelectSeq(<<entry.details, entry.notes>>, Boolean), " | "),
       start |-> startStr,
       end |-> endStr,
       status |-> normalizeStatus(entry.status),
       rowId |-> RowIdOf(entry) ]

(* the mapper of the earlier driver version: start at the call time, one hour *)
oldToGoogleEvent(entry) ==
  LET start == Date(Number(entry.date[3]), Number(entry.date[1]) - 1, Number(entry.date[2]),
                    Number(entry.callTime[1]), Number(entry.callTime[2]))
      end == [valid |-> TRUE, time |-> start.time + OLD_END_MINUTES]
  IN [ summary |-> entry.show,
       location |-> join(SelectSeq(<<entry.venue, entry.location>>, Boolean), " - "),
       description |-> join(SelectSeq(<<entry.details, entry.notes>>, Boolean), " | "),
       start |-> toISOString(start),
       end |-> toISOString(end),
       status |-> IF toLowerCase(entry.status) = "" THEN "confirmed" ELSE toLowerCase(entry.status),
       rowId |-> RowIdOf(entry) ]

(* ---- the scraped input ---- *)
Calls == {60 * i : i \in 1..NCalls}
Kept ==
  { [show |-> "A", status |-> "Confirmed", notes |-> "", isCallCancelled |-> FALSE],
    [show |-> "A", status |-> "Called", notes |-> "bring boots", isCallCancelled |-> FALSE] }
Dropped ==
  { [show |-> "A", status |-> "Called Out", notes |-> "", isCallCancelled |-> FALSE],
    [show |-> "CANCELLED B", status |-> "Confirmed", notes |-> "", isCallCancelled |-> FALSE],
    [show |-> "A", status |-> "Confirmed", notes |-> "", isCallCancelled |-> TRUE] }

(* the text of the date cell and of the call time cell of a row whose call is
   c minutes after 2026-03-07 00:00 on the clock of the venue *)
DateText(c) == <<pad(MonthFromTime(c) + 1), pad(DateFromTime(c)), ToString(YearFromTime(c))>>
CallTimeText(c) == <<pad(HourFromTime(c)), pad(MinFromTime(c))>>

(* a scraped row.  date and callTime hold the raw text as the parts between
   "/" and ":"; call is the clock time that well-formed text denotes *)
RawRow(c, v, d, t) ==
  [date |-> d, callTime |-> t, call |-> c, show |-> v.show, venue |-> "", position |-> "",
   type |-> "", location |-> "", details |-> "", status |-> v.status, notes |-> v.notes,
   isCallCancelled |-> v.isCallCancelled]
Row(c, v) == RawRow(c, v, DateText(c), CallTimeText(c))
Entry == {Row(c, v) : c \in Calls, v \in Kept} \cup {Row(60, v) : v \in Dropped}
NowValues == {0, 45, 150, 400}

(* rows of every shape the page may hold *)
CellKind(callCancelledCell) ==
  [show |-> "A", status |-> "Confirmed", notes |-> "",
   isCallCancelled |-> isCallCancelledCell(callCancelledCell)]

Cells == {"", "Call Cancelled", "CALL CANCELLED", "Call Cancelled by client"}

FilterKinds ==
  Kept \cup Dropped \cup {CellKind(x) : x \in Cells}
  \cup { [show |-> "Show Cancelled", status |-> "Confirmed", notes |-> "", isCallCancelled |-> FALSE],
         [show |-> "Canceled C", status |-> "Confirmed", notes |-> "", isCallCancelled |-> FALSE],
         [show |-> "A", status |-> "CALLED OUT - sick", notes |-> "", isCallCancelled |-> FALSE],
         [show |-> "", status |-> "", notes |-> "", isCallCancelled |-> FALSE],
         [show |-> "", status |-> "Called Out", notes |-> "", isCallCancelled |-> FALSE] }

(* raw date and time texts that do not split into numbers *)
Malformed(c) ==
  { <<<<"TBD">>, CallTimeText(c)>>, <<DateText(c), <<"7", "30 PM">>>>, <<DateText(c), <<"">>>> }

RichEntry ==
  {Row(c, v) : c \in Calls, v \in FilterKinds}
  \cup UNION {{RawRow(c, CellKind(""), m[1], m[2]) : m \in Malformed(c)} : c \in Calls}

(* ---- the rows handed to the mapper alone ---- *)
(* every call time of one day; calls near midnight and in the evening on the
   days around the ends of months and of the year and around the two clock
   changes of 2026; every spelling of the status; pairs of rows whose key
   fields hold text with and without the delimiter *)
MapperInputs ==
  LET Plain == CHOOSE v \in Kept : v.status = "Confirmed"
      TimeRows == {Row(c, Plain) : c \in 0..(24 * 60 - 1)}
      BoundaryDays ==
        { <<2025, 11, 31>>, <<2026, 0, 1>>, <<2026, 0, 31>>, <<2026, 1, 1>>, <<2026, 1, 28>>,
          <<2026, 2, 1>>, <<2026, 2, 8>>, <<2026, 2, 9>>, <<2026, 9, 31>>, <<2026, 10, 1>> }
      BoundaryTimes ==
        { <<0, 0>>, <<0, 15>>, <<0, 29>>, <<0, 30>>, <<1, 15>>, <<1, 45>>, <<3, 0>>, <<3, 15>>,
          <<3, 29>>, <<3, 30>>, <<12, 0>>, <<18, 59>>, <<19, 0>>, <<20, 0>>, <<21, 30>>, <<23, 59>> }
      BoundaryRows ==
        {Row(MakeDate(MakeDay(d[1], d[2], d[3]), MakeTime(t[1], t[2])), Plain) :
           d \in BoundaryDays, t \in BoundaryTimes}
      StatusInputs ==
        { "", null, undefined, "called", "Called", "CALLED", "cAlLeD", "tentative", "Tentative",
          "TENTATIVE", "cancelled", "Cancelled", "CANCELLED", "canceled", "Canceled", "CANCELED",
          "confirmed", "Confirmed", "Called Out", "called out", " called", "cancelled b", "TBD" }
      StatusRows ==
        {Row(c, [show |-> "A", status |-> st, notes |-> "", isCallCancelled |-> FALSE]) :
           c \in Calls, st \in StatusInputs}
      KeyTexts == {"", "A", "B", "A | B"}
      KeyRows ==
        {[Row(60, Plain) EXCEPT !.show = f[1], !.venue = f[2], !.position = f[3]] :
           f \in [1..3 -> KeyTexts]}
        \cup {[Row(c, Plain) EXCEPT !.type = "Load In"] : c \in Calls}
  IN {<<e>> : e \in TimeRows \cup BoundaryRows \cup StatusRows}
     \cup {<<a, b>> : a, b \in KeyRows}

RowIds == {RowIdOf(Row(c, v)) : c \in Calls, v \in Kept \cup Dropped}

(* ---- identity ---- *)
deterministicIdFor(rowId) == <<"sha256", rowId>>
RandIds == {<<"g", n, "">> : n \in 1..NRand}

normalizeEventBody(event) ==
  [ summary |-> event.summary,
    location |-> event.location,
    description |-> event.description,
    start |-> event.start,
    end |-> event.end,
    status |-> IF event.status = "" THEN "confirmed" ELSE event.status,
    rhinoRowId |-> event.rowId ]

(* ---- errors of the remote calendar ---- *)
NoError == [code |-> 0, invalidGrant |-> FALSE]
ErrNotFound == [code |-> 404, invalidGrant |-> FALSE]
ErrConflict == [code |-> 409, invalidGrant |-> FALSE]
ErrServer == [code |-> 500, invalidGrant |-> FALSE]
ErrExpired == [code |-> 400, invalidGrant |-> TRUE]
ErrCloudDiagnostic == [code |-> 1, invalidGrant |-> FALSE]
ErrCrash == [code |-> 2, invalidGrant |-> FALSE]
ErrMissingEnv == [code |-> 3, invalidGrant |-> FALSE]
ErrTimeout == [code |-> 4, invalidGrant |-> FALSE]
ExtractionErrors == {ErrMissingEnv, ErrTimeout}
Faults == {ErrServer, ErrExpired}

isExpiredTokenError(error) == error.invalidGrant


(* ---- state ---- *)
VARIABLES
  remote,         \* the calendar: event id -> stored event
  now,            \* the current time
  interactive,    \* TRUE: local run; FALSE: cloud function
  pc,             \* where getSchedule stands
  googleEvents,   \* the desired events of this run, in list order
  idx,            \* number of desired events already handed to addEvent
  rhinoEvents,    \* purge: the listed owner-tagged events still to delete
  retrying,       \* inside the retryFn of handleAuthError
  authorizeCalls, \* calls of authorize() in this run; the credential in use
  tokenDeletes,   \* unlinks of the cached token in this run
  results,        \* what each addEvent call of this run returned
  thrown,         \* the error that ended the run
  lastCall,       \* the most recent remote call and its outcome
  clean,          \* no remote call of this run has failed
  prev,           \* how the last run ended, and the calendar it left
  futureEntries,  \* the scraped entries that passed both filters, in order
  method,         \* the method of the HTTP request being served, "" if none
  res,            \* the HTTP response: status, body.success, number of sends
  proc,           \* the local process: exit status and what it logged last
  events,         \* the scraped rows, while the filters are examined
  options,        \* dedupeRhino: the options argument of the call
  pending,        \* dedupeRhino: the duplicates still to delete (or to report)
  before,         \* dedupeRhino: the calendar as it was when the call began
  probe,          \* formatTimeForTitle: the argument and the value of one call
  other           \* a second run of getSchedule, while it waits for the calendar

vars == <<remote, now, interactive, pc, googleEvents, idx, rhinoEvents, retrying,
          authorizeCalls, tokenDeletes, results, thrown, lastCall, clean, prev,
          futureEntries, method, res, proc, events, options, pending, before, probe, other>>

dedupeVars == <<options, pending, before>>

callerVars == <<futureEntries, method, res, proc, events>>

sideVars == <<probe, other>>

(* ---- the remote calendar API ---- *)
Exists(store, id) == id \in DOMAIN store

ApiDelete(store, id) == [i \in (DOMAIN store) \ {id} |-> store[i]]

(* the instant the calendar reads from a dateTime text: the clock time of the
   zone sent with it, or UTC if the text ends in Z *)
CalendarTimes == {30 * i : i \in (-2)..(2 * NCalls + 12)}

InstantOf ==
  LET LocalTexts ==
        [t \in CalendarTimes |->
           formatDateTimeForTimezone(YearFromTime(LocalTime(t)), MonthFromTime(LocalTime(t)) + 1,
             DateFromTime(LocalTime(t)), HourFromTime(LocalTime(t)), MinFromTime(LocalTime(t)))]
      IsoTexts == [t \in CalendarTimes |-> toISOString([valid |-> TRUE, time |-> t])]
  IN [text \in {LocalTexts[t] : t \in CalendarTimes} \cup {IsoTexts[t] : t \in CalendarTimes} |->
        CHOOSE t \in CalendarTimes : LocalTexts[t] = text \/ IsoTexts[t] = text]

dateTime(text) == InstantOf[text]

(* the event resource the calendar keeps for a request body *)
Resource(body) ==
  [body EXCEPT !.start = dateTime(body.start), !.end = dateTime(body.end)]

ApiPut(store, id, body) ==
  [i \in (DOMAIN store) \cup {id} |-> IF i = id THEN Resource(body) ELSE store[i]]

(* events.list with timeMin: the events that have not ended by timeMin *)
ListedFrom(store, timeMin) == {i \in DOMAIN store : store[i].end > timeMin}

IsRhino(e) == e.rhinoRowId # NoRowId

(* items.filter(e => e.extendedProperties?.private?.rhinoRowId) *)
rhinoFilter_All(e) == TRUE

rhinoFilter(e) == e.rhinoRowId # NoRowId

(* orderBy startTime; events with equal start come in any order *)
ListOrders(store, S) ==
  {o \in [1..Cardinality(S) -> S] :
     /\ \A a, b \in 1..Cardinality(S) : a # b => o[a] # o[b]
     /\ \A a, b \in 1..Cardinality(S) : a < b => store[o[a]].start <= store[o[b]].start}

NoCall == [op |-> "", id |-> <<>>, err |-> NoError, cred |-> 0]
Call(op, id, err) ==
  [op |-> op, id |-> id, err |-> err, cred |-> authorizeCalls]

NoPrev == [kind |-> "none", desired |-> <<>>, store |-> <<>>]

(* nothing sent yet; the process has not ended and has logged no outcome *)
NoRes == [status |-> 0, body |-> "", cors |-> FALSE, sent |-> 0]
NoProc == [exited |-> FALSE, code |-> 0, log |-> ""]

(* formatTimeForTitle has not been called *)
NoProbe == [timeStr |-> <<>>, title |-> ""]

(* there is no second run *)
NoRun == [pc |-> "none"]

(* ---- initial calendars ---- *)
UserEvent ==
  [ summary |-> "dentist", location |-> "", description |-> "",
    start |-> 200, end |-> 450, status |-> "confirmed", rhinoRowId |-> NoRowId ]

SeedEntries == {e \in Entry : ~isEventCancelled(e)}

(* events this program, in its present or an earlier version, stores for a key *)
RhinoBodies ==
  [r \in RowIds |->
     {Resource(normalizeEventBody(toGoogleEvent(e))) : e \in {x \in SeedEntries : RowIdOf(x) = r}}
     \cup {Resource(normalizeEventBody(oldToGoogleEvent(e))) :
             e \in {x \in SeedEntries : RowIdOf(x) = r /\ x.status = "Confirmed"}}]

NoEvent ==
  [ summary |-> "", location |-> "", description |-> "",
    start |-> 0, end |-> 0, status |-> "absent", rhinoRowId |-> NoRowId ]

StoredIds == {deterministicIdFor(r) : r \in {x \in RowIds : RhinoBodies[x] # {}}} \cup RandIds

(* the calendars a run may meet: under a deterministic id only an event this
   program stored for that key; under an id the calendar assigned, a user's own
   event or an owner-tagged event of any key *)
Slots ==
  {f \in [StoredIds -> UNION {RhinoBodies[r] : r \in RowIds} \cup {UserEvent, NoEvent}] :
     \A r \in RowIds :
        deterministicIdFor(r) \in StoredIds
          => f[deterministicIdFor(r)] \in RhinoBodies[r] \cup {NoEvent}}

AnyStore == {[i \in {j \in StoredIds : f[j] # NoEvent} |-> f[i]] : f \in Slots}

(* the calendars that cycles of this program leave behind: the events of a key
   sit under the ids the calendar assigned (insert with the id passed beside
   the body) or under deterministicIdFor(key) (insert with the id in the body),
   never under both, since an insert follows a purge that returned normally *)
OwnStore ==
  {s \in AnyStore :
     \A i \in DOMAIN s \cap RandIds :
        IsRhino(s[i]) => deterministicIdFor(s[i].rhinoRowId) \notin DOMAIN s}

InitRest ==
  /\ interactive \in BOOLEAN
  /\ pc = "idle"
  /\ googleEvents = <<>>
  /\ idx = 0
  /\ rhinoEvents = <<>>
  /\ retrying = FALSE
  /\ authorizeCalls = 0
  /\ tokenDeletes = 0
  /\ results = <<>>
  /\ thrown = NoError
  /\ lastCall = NoCall
  /\ clean = TRUE
  /\ prev = NoPrev
  /\ futureEntries = <<>>
  /\ method = ""
  /\ res = NoRes
  /\ proc = NoProc
  /\ events = <<>>
  /\ pending = <<>>
  /\ before = <<>>
  /\ probe = NoProbe
  /\ other = NoRun

Init == remote \in AnyStore /\ now \in NowValues /\ options = "" /\ InitRest

InitOwn == remote \in OwnStore /\ now \in NowValues /\ options = "" /\ InitRest


(* ---- getSchedule: scrape, filter, map, authorize ---- *)
Scrapes == UNION {[1..n -> Entry] : n \in 0..MaxEvents}

(* entry.date.split("/").map(Number), entry.callTime.split(":").map(Number),
   new Date(year, month - 1, day, hours, minutes): a part that is missing or
   is no number gives an Invalid Date, which compares false with everything *)
newDate(entry) ==
  IF /\ Len(entry.date) >= 3
     /\ Len(entry.callTime) >= 2
     /\ \A i \in 1..3 : ~isNaN(entry.date[i])
     /\ \A i \in 1..2 : ~isNaN(entry.callTime[i])
  THEN Date(Number(entry.date[3]), Number(entry.date[1]) - 1, Number(entry.date[2]),
            Number(entry.callTime[1]), Number(entry.callTime[2]))
  ELSE InvalidDate

(* the Date and the event of every row of a scrape, worked out once *)
StartOf == [e \in Entry \cup RichEntry |-> newDate(e)]

GoogleEventOf == [e \in {x \in Entry \cup RichEntry : newDate(x).valid} |-> toGoogleEvent(e)]

(* variant: an entry whose call time is now is kept *)
isFuture_AtOrAfter(entry) ==
  LET start == StartOf[entry] IN start.valid /\ start.time >= now

isFuture(entry) ==
  LET start == StartOf[entry] IN start.valid /\ start.time > now

MapEvents(entries) == [i \in 1..Len(entries) |-> GoogleEventOf[entries[i]]]

Running == pc \in {"purge_list", "purge_delete", "purge_fallback",
                   "sync_get", "sync_update", "sync_insert"}

(* validEntries = events.filter(not cancelled); futureEntries = those whose
   call time is later than the time of the run *)
FilterEntries(rows) ==
  SelectSeq(SelectSeq(rows, LAMBDA e : ~isEventCancelled(e)), isFuture)

(* the request method seen by syncSchedule; sync.js serves no request *)
RunMethod == IF interactive THEN "" ELSE "GET"

StartRun ==
  /\ pc = "idle"
  /\ \E rows \in Scrapes :
       LET desired == MapEvents(FilterEntries(rows))
       IN /\ futureEntries' = FilterEntries(rows)
          /\ googleEvents' = desired
          /\ prev' = IF prev.kind = "clean" /\ desired # prev.desired THEN NoPrev ELSE prev
  /\ method' = RunMethod
  /\ authorizeCalls' = 1
  /\ pc' = "purge_list"
  /\ UNCHANGED <<remote, now, interactive, idx, rhinoEvents, retrying, tokenDeletes,
                 results, thrown, lastCall, clean, res, proc, events>>
  /\ UNCHANGED dedupeVars
  /\ UNCHANGED sideVars

(* variant: the extraction error is logged and the run goes on *)
ExtractFail_Continues ==
  /\ pc = "idle"
  /\ \E e \in ExtractionErrors : thrown' = e
  /\ method' = RunMethod
  /\ authorizeCalls' = 1
  /\ pc' = "purge_list"
  /\ UNCHANGED <<remote, now, interactive, googleEvents, idx, rhinoEvents, retrying,
                 tokenDeletes, results, lastCall, clean, prev, futureEntries, res, proc, events>>
  /\ UNCHANGED dedupeVars
  /\ UNCHANGED sideVars

(* the site credentials are missing, or navigation, login or a selector wait
   fails: getSchedule throws before authorize() and before any calendar call *)
ExtractFail ==
  /\ pc = "idle"
  /\ \E e \in ExtractionErrors : thrown' = e
  /\ method' = RunMethod
  /\ pc' = "failed"
  /\ UNCHANGED <<remote, now, interactive, googleEvents, idx, rhinoEvents, retrying,
                 authorizeCalls, tokenDeletes, results, lastCall, clean, prev,
                 futureEntries, res, proc, events>>
  /\ UNCHANGED dedupeVars
  /\ UNCHANGED sideVars

(* ---- the callers of getSchedule ---- *)
Ended == pc \in {"done", "failed"} /\ thrown # ErrCrash

(* main.js: an OPTIONS request is answered before the try block *)
Preflight ==
  /\ pc = "idle"
  /\ ~interactive
  /\ method' = "OPTIONS"
  /\ res' = [status |-> 204, body |-> "", cors |-> TRUE, sent |-> res.sent + 1]
  /\ pc' = "exited"
  /\ UNCHANGED <<remote, now, interactive, googleEvents, idx, rhinoEvents, retrying,
                 authorizeCalls, tokenDeletes, results, thrown, lastCall, clean, prev,
                 futureEntries, proc, events>>
  /\ UNCHANGED dedupeVars
  /\ UNCHANGED sideVars

(* variant: the handler logs the error and throws it again, sending nothing *)
syncSchedule_Rethrow ==
  /\ Ended
  /\ ~interactive
  /\ res' = IF pc = "done"
            THEN [status |-> 200, body |-> "success: true, message, timestamp",
                  cors |-> TRUE, sent |-> res.sent + 1]
            ELSE res
  /\ pc' = "exited"
  /\ UNCHANGED <<remote, now, interactive, googleEvents, idx, rhinoEvents, retrying,
                 authorizeCalls, tokenDeletes, results, thrown, lastCall, clean, prev,
                 futureEntries, method, proc, events>>
  /\ UNCHANGED dedupeVars
  /\ UNCHANGED sideVars

(* main.js: try { await getSchedule(); 200 } catch (err) { 500 } *)
syncSchedule ==
  /\ Ended
  /\ ~interactive
  /\ res' = IF pc = "done"
            THEN [status |-> 200, body |-> "success: true, message, timestamp",
                  cors |-> TRUE, sent |-> res.sent + 1]
            ELSE [status |-> 500, body |-> "success: false, error, timestamp",
                  cors |-> TRUE, sent |-> res.sent + 1]
  /\ pc' = "exited"
  /\ UNCHANGED <<remote, now, interactive, googleEvents, idx, rhinoEvents, retrying,
                 authorizeCalls, tokenDeletes, results, thrown, lastCall, clean, prev,
                 futureEntries, method, proc, events>>
  /\ UNCHANGED dedupeVars
  /\ UNCHANGED sideVars

(* sync.js: try { await getSchedule(); log } catch (err) { log }.  Nothing sets
   an exit status; after a failure the browser is still open, so the process
   either stays alive or ends with status 0 *)
syncJs ==
  /\ Ended
  /\ interactive
  /\ \/ proc' = [exited |-> TRUE, code |-> 0,
                 log |-> IF pc = "done" THEN "Schedule sync completed locally."
                         ELSE "Local sync failed:"]
     \/ /\ pc = "failed"
        /\ thrown # ErrMissingEnv
        /\ proc' = [exited |-> FALSE, code |-> 0, log |-> "Local sync failed:"]
  /\ pc' = "exited"
  /\ UNCHANGED <<remote, now, interactive, googleEvents, idx, rhinoEvents, retrying,
                 authorizeCalls, tokenDeletes, results, thrown, lastCall, clean, prev,
                 futureEntries, method, res, events>>
  /\ UNCHANGED dedupeVars
  /\ UNCHANGED sideVars

(* the request or the process is over, also when it was killed half-way *)
Finish ==
  /\ pc = "exited" \/ (pc = "failed" /\ thrown = ErrCrash)
  /\ prev' = IF method = "OPTIONS" \/ thrown \in ExtractionErrors THEN prev
             ELSE IF thrown = NoError /\ clean
             THEN [kind |-> "clean", desired |-> googleEvents, store |-> remote]
             ELSE IF thrown # NoError /\ \E i \in DOMAIN remote : IsRhino(remote[i])
             THEN [kind |-> "broken", desired |-> <<>>, store |-> <<>>]
             ELSE NoPrev
  /\ pc' = "idle"
  /\ googleEvents' = <<>>
  /\ idx' = 0
  /\ rhinoEvents' = <<>>
  /\ retrying' = FALSE
  /\ authorizeCalls' = 0
  /\ tokenDeletes' = 0
  /\ results' = <<>>
  /\ thrown' = NoError
  /\ lastCall' = NoCall
  /\ clean' = TRUE
  /\ futureEntries' = <<>>
  /\ method' = ""
  /\ res' = NoRes
  /\ proc' = NoProc
  /\ UNCHANGED <<remote, now, interactive, events>>
  /\ UNCHANGED dedupeVars
  /\ UNCHANGED sideVars

(* the run ends with an uncaught error *)
Fail(err) ==
  /\ pc' = "failed"
  /\ thrown' = err
  /\ UNCHANGED <<retrying, authorizeCalls, tokenDeletes>>

(* handleAuthError(error, () => purgeRhinoEvents(auth)), reached from the catch
   around the first purgeRhinoEvents call; an error of the retry itself escapes *)
handleAuthError(error) ==
  IF retrying THEN Fail(error)
  ELSE IF isExpiredTokenError(error)
       THEN IF ~interactive
            THEN Fail(ErrCloudDiagnostic)
            ELSE /\ tokenDeletes' = tokenDeletes + 1
                 /\ authorizeCalls' = authorizeCalls + 1
                 /\ retrying' = TRUE
                 /\ pc' = "purge_list"
                 /\ thrown' = thrown
       ELSE Fail(error)

(* the purge has returned: the driver enters its loop over googleEvents *)
LoopPc(i) == IF i < Len(googleEvents) THEN "sync_get" ELSE "done"

PurgeReturns ==
  /\ pc' = LoopPc(0)
  /\ retrying' = FALSE
  /\ UNCHANGED <<authorizeCalls, tokenDeletes, thrown>>

(* ---- purgeRhinoEvents ---- *)
PurgeList ==
  /\ pc = "purge_list"
  /\ \/ \E f \in Faults :
          /\ lastCall' = Call("list", <<>>, f)
          /\ clean' = FALSE
          /\ handleAuthError(f)
          /\ UNCHANGED rhinoEvents
     \/ \E o \in ListOrders(remote, {i \in ListedFrom(remote, now) : rhinoFilter(remote[i])}) :
          /\ lastCall' = Call("list", <<>>, NoError)
          /\ rhinoEvents' = [k \in DOMAIN o |-> [id |-> o[k], rowId |-> remote[o[k]].rhinoRowId]]
          /\ IF Len(o) = 0 THEN PurgeReturns
             ELSE /\ pc' = "purge_delete"
                  /\ UNCHANGED <<retrying, authorizeCalls, tokenDeletes, thrown>>
          /\ UNCHANGED clean
  /\ UNCHANGED <<remote, now, interactive, googleEvents, idx, results, prev>>
  /\ UNCHANGED callerVars
  /\ UNCHANGED dedupeVars
  /\ UNCHANGED sideVars

(* variant: the purge returns after the first listed event *)
PurgeNext_First ==
  /\ rhinoEvents' = <<>>
  /\ pc' = LoopPc(0)
  /\ retrying' = FALSE
  /\ UNCHANGED <<authorizeCalls, tokenDeletes, thrown>>

(* the listed event has been dealt with: next one, or return *)
PurgeNext ==
  /\ rhinoEvents' = Tail(rhinoEvents)
  /\ IF Len(rhinoEvents) = 1 THEN PurgeReturns
     ELSE /\ pc' = "purge_delete"
          /\ UNCHANGED <<retrying, authorizeCalls, tokenDeletes, thrown>>

(* variant: a failed delete is logged and the loop goes on *)
PurgeThrow_Swallow(op, id, err) ==
  /\ lastCall' = Call(op, id, err)
  /\ clean' = FALSE
  /\ remote' = remote
  /\ PurgeNext

PurgeThrow(op, id, err) ==
  /\ lastCall' = Call(op, id, err)
  /\ clean' = FALSE
  /\ handleAuthError(err)
  /\ UNCHANGED <<remote, rhinoEvents>>

PurgeDeleteExpected ==
  /\ pc = "purge_delete"
  /\ LET ev == Head(rhinoEvents)
         expectedId == deterministicIdFor(ev.rowId)
     IN \/ \E f \in Faults : PurgeThrow("delete", expectedId, f)
        \/ /\ Exists(remote, expectedId)
           /\ remote' = ApiDelete(remote, expectedId)
           /\ lastCall' = Call("delete", expectedId, NoError)
           /\ PurgeNext
           /\ UNCHANGED clean
        \/ /\ ~Exists(remote, expectedId)
           /\ lastCall' = Call("delete", expectedId, ErrNotFound)
           /\ pc' = "purge_fallback"
           /\ UNCHANGED <<remote, rhinoEvents, retrying, authorizeCalls, tokenDeletes, thrown, clean>>
  /\ UNCHANGED <<now, interactive, googleEvents, idx, results, prev>>
  /\ UNCHANGED callerVars
  /\ UNCHANGED dedupeVars
  /\ UNCHANGED sideVars

(* variant: no fallback delete by the event's own id *)
PurgeDeleteFallback_Skip ==
  /\ pc = "purge_fallback"
  /\ PurgeNext
  /\ UNCHANGED <<remote, lastCall, clean>>
  /\ UNCHANGED <<now, interactive, googleEvents, idx, results, prev>>
  /\ UNCHANGED callerVars
  /\ UNCHANGED dedupeVars
  /\ UNCHANGED sideVars

PurgeDeleteFallback ==
  /\ pc = "purge_fallback"
  /\ LET ev == Head(rhinoEvents)
     IN \/ \E f \in Faults : PurgeThrow("delete", ev.id, f)
        \/ /\ ~Exists(remote, ev.id)
           /\ PurgeThrow("delete", ev.id, ErrNotFound)
        \/ /\ Exists(remote, ev.id)
           /\ remote' = ApiDelete(remote, ev.id)
           /\ lastCall' = Call("delete", ev.id, NoError)
           /\ PurgeNext
           /\ UNCHANGED clean
  /\ UNCHANGED <<now, interactive, googleEvents, idx, results, prev>>
  /\ UNCHANGED callerVars
  /\ UNCHANGED dedupeVars
  /\ UNCHANGED sideVars

(* ---- syncEvent / addEvent ---- *)
Returns(action) ==
  /\ results' = Append(results, action)
  /\ idx' = idx + 1
  /\ pc' = LoopPc(idx + 1)

(* variant: syncEvent lets the error escape *)
SyncError_Throws(op, id, err) ==
  /\ lastCall' = Call(op, id, err)
  /\ clean' = FALSE
  /\ pc' = "failed"
  /\ UNCHANGED <<remote, results, idx>>

(* variant: after a failed lookup syncEvent goes on to the insert *)
SyncError_FallsThrough(op, id, err) ==
  /\ lastCall' = Call(op, id, err)
  /\ clean' = FALSE
  /\ pc' = "sync_insert"
  /\ UNCHANGED <<remote, results, idx>>

SyncError(op, id, err) ==
  /\ lastCall' = Call(op, id, err)
  /\ clean' = FALSE
  /\ Returns("error")
  /\ UNCHANGED remote

SyncGet ==
  /\ pc = "sync_get"
  /\ LET eventId == deterministicIdFor(googleEvents[idx + 1].rowId)
     IN \/ \E f \in Faults : SyncError("get", eventId, f)
        \/ /\ Exists(remote, eventId)
           /\ lastCall' = Call("get", eventId, NoError)
           /\ pc' = "sync_update"
           /\ UNCHANGED <<remote, idx, results, clean>>
        \/ /\ ~Exists(remote, eventId)
           /\ lastCall' = Call("get", eventId, ErrNotFound)
           /\ pc' = "sync_insert"
           /\ UNCHANGED <<remote, idx, results, clean>>
  /\ UNCHANGED <<now, interactive, googleEvents, rhinoEvents, retrying, authorizeCalls,
                 tokenDeletes, thrown, prev>>
  /\ UNCHANGED callerVars
  /\ UNCHANGED dedupeVars
  /\ UNCHANGED sideVars

SyncUpdate ==
  /\ pc = "sync_update"
  /\ LET event == googleEvents[idx + 1]
         eventId == deterministicIdFor(event.rowId)
         requestBody == normalizeEventBody(event)
     IN \/ \E f \in Faults : SyncError("update", eventId, f)
        \/ /\ Exists(remote, eventId)
           /\ remote' = ApiPut(remote, eventId, requestBody)
           /\ lastCall' = Call("update", eventId, NoError)
           /\ Returns("updated")
           /\ UNCHANGED clean
        \/ /\ ~Exists(remote, eventId)
           /\ lastCall' = Call("update", eventId, ErrNotFound)
           /\ pc' = "sync_insert"
           /\ UNCHANGED <<remote, idx, results, clean>>
  /\ UNCHANGED <<now, interactive, googleEvents, rhinoEvents, retrying, authorizeCalls,
                 tokenDeletes, thrown, prev>>
  /\ UNCHANGED callerVars
  /\ UNCHANGED dedupeVars
  /\ UNCHANGED sideVars

(* the id the inserted event gets: insertBody.id *)
InsertId_Random(eventId) == CHOOSE r \in RandIds : TRUE

InsertId(eventId) == eventId

SyncInsert ==
  /\ pc = "sync_insert"
  /\ LET event == googleEvents[idx + 1]
         eventId == deterministicIdFor(event.rowId)
         requestBody == normalizeEventBody(event)
     IN \/ \E f \in Faults : SyncError("insert", eventId, f)
        \/ /\ Exists(remote, InsertId(eventId))
           /\ SyncError("insert", eventId, ErrConflict)
        \/ /\ ~Exists(remote, InsertId(eventId))
           /\ remote' = ApiPut(remote, InsertId(eventId), requestBody)
           /\ lastCall' = Call("insert", eventId, NoError)
           /\ Returns("created")
           /\ UNCHANGED clean
  /\ UNCHANGED <<now, interactive, googleEvents, rhinoEvents, retrying, authorizeCalls,
                 tokenDeletes, thrown, prev>>
  /\ UNCHANGED callerVars
  /\ UNCHANGED dedupeVars
  /\ UNCHANGED sideVars

(* ---- the environment ---- *)
Crash ==
  /\ Running
  /\ pc' = "failed"
  /\ thrown' = ErrCrash
  /\ clean' = FALSE
  /\ UNCHANGED <<remote, now, interactive, googleEvents, idx, rhinoEvents, retrying,
                 authorizeCalls, tokenDeletes, results, lastCall, prev>>
  /\ UNCHANGED callerVars
  /\ UNCHANGED dedupeVars
  /\ UNCHANGED sideVars

Tick ==
  /\ pc = "idle"
  /\ \E t \in NowValues : t > now /\ now' = t
  /\ UNCHANGED <<remote, interactive, pc, googleEvents, idx, rhinoEvents, retrying,
                 authorizeCalls, tokenDeletes, results, thrown, lastCall, clean, prev>>
  /\ UNCHANGED callerVars
  /\ UNCHANGED dedupeVars
  /\ UNCHANGED sideVars

Next ==
  \/ StartRun
  \/ ExtractFail
  \/ Preflight
  \/ syncSchedule
  \/ syncJs
  \/ PurgeList
  \/ PurgeDeleteExpected
  \/ PurgeDeleteFallback
  \/ SyncGet
  \/ SyncUpdate
  \/ SyncInsert
  \/ Finish
  \/ Crash
  \/ Tick

Spec == Init /\ [][Next]_vars

SpecOwn == InitOwn /\ [][Next]_vars


(* ---- the filters and the mapper of getSchedule, on rows of every shape ---- *)
RichScrapes == UNION {[1..n -> RichEntry] : n \in 0..MaxEvents}

InitFilter ==
  /\ remote = <<>>
  /\ now \in NowValues \cup Calls
  /\ options = ""
  /\ InitRest

(* page.evaluate, then the two filters and the map *)
Scrape ==
  /\ pc = "idle"
  /\ \E rows \in RichScrapes :
       /\ events' = rows
       /\ futureEntries' = FilterEntries(rows)
       /\ googleEvents' = MapEvents(FilterEntries(rows))
  /\ pc' = "mapped"
  /\ UNCHANGED <<remote, now, interactive, idx, rhinoEvents, retrying, authorizeCalls,
                 tokenDeletes, results, thrown, lastCall, clean, prev, method, res, proc>>
  /\ UNCHANGED dedupeVars
  /\ UNCHANGED sideVars

Discard ==
  /\ pc = "mapped"
  /\ events' = <<>>
  /\ futureEntries' = <<>>
  /\ googleEvents' = <<>>
  /\ pc' = "idle"
  /\ UNCHANGED <<remote, now, interactive, idx, rhinoEvents, retrying, authorizeCalls,
                 tokenDeletes, results, thrown, lastCall, clean, prev, method, res, proc>>
  /\ UNCHANGED dedupeVars
  /\ UNCHANGED sideVars

NextFilter == Scrape \/ Discard

SpecFilter == InitFilter /\ [][NextFilter]_vars


(* ---- utils.js on its own: the mapper and the title format ---- *)
(* toGoogleEvent(entry) for each row of a list *)
callToGoogleEvent ==
  /\ pc = "idle"
  /\ \E rows \in MapperInputs :
       /\ events' = rows
       /\ googleEvents' = [i \in 1..Len(rows) |-> toGoogleEvent(rows[i])]
  /\ pc' = "mapped"
  /\ UNCHANGED <<remote, now, interactive, idx, rhinoEvents, retrying, authorizeCalls,
                 tokenDeletes, results, thrown, lastCall, clean, prev, futureEntries,
                 method, res, proc>>
  /\ UNCHANGED dedupeVars
  /\ UNCHANGED sideVars

(* formatTimeForTitle(timeStr) *)
callFormatTimeForTitle ==
  /\ pc = "idle"
  /\ \E timeStr \in {<<pad(h), pad(m)>> : h \in 0..23, m \in 0..59} :
       probe' = [timeStr |-> timeStr, title |-> formatTimeForTitle(timeStr)]
  /\ pc' = "formatted"
  /\ UNCHANGED <<remote, now, interactive, googleEvents, idx, rhinoEvents, retrying,
                 authorizeCalls, tokenDeletes, results, thrown, lastCall, clean, prev, other>>
  /\ UNCHANGED callerVars
  /\ UNCHANGED dedupeVars

(* the value has been used *)
formatTimeForTitleReturns ==
  /\ pc = "formatted"
  /\ probe' = NoProbe
  /\ pc' = "idle"
  /\ UNCHANGED <<remote, now, interactive, googleEvents, idx, rhinoEvents, retrying,
                 authorizeCalls, tokenDeletes, results, thrown, lastCall, clean, prev, other>>
  /\ UNCHANGED callerVars
  /\ UNCHANGED dedupeVars

NextMapper ==
  \/ callToGoogleEvent
  \/ Discard
  \/ callFormatTimeForTitle
  \/ formatTimeForTitleReturns

InitMapper ==
  /\ remote = <<>>
  /\ now = 0
  /\ options = ""
  /\ InitRest
  /\ interactive

SpecMapper == InitMapper /\ [][NextMapper]_vars


(* ---- dedupeRhino ---- *)
OptionArgs == {"undefined", "{}", "{ dryRun: true }", "{ dryRun: false }"}

(* variant: the dryRun option is not looked at *)
dryRun_Ignored(arg) == FALSE

(* options = { dryRun: true } when the argument is missing; then options.dryRun *)
dryRun(arg) == arg \in {"undefined", "{ dryRun: true }"}

(* the updated time of a stored event; 0 stands for a missing field *)
Updates == {0, 10, 20}

Stamp(body, u) ==
  [ summary |-> body.summary, location |-> body.location, description |-> body.description,
    start |-> body.start, end |-> body.end, status |-> body.status,
    rhinoRowId |-> body.rhinoRowId, updated |-> u ]

DupEntries == {Row(c, CHOOSE v \in Kept : v.status = "Confirmed") : c \in Calls}

DupKeys == {RowIdOf(e) : e \in DupEntries}

DupBody(k) ==
  Resource(normalizeEventBody(toGoogleEvent(CHOOSE e \in DupEntries : RowIdOf(e) = k)))

DupRandIds == {<<"g", n, "">> : n \in 1..(NRand + 1)}

DupIds == {deterministicIdFor(k) : k \in DupKeys} \cup DupRandIds

DupValues ==
  {Stamp(DupBody(k), u) : k \in DupKeys, u \in Updates}
  \cup {Stamp(UserEvent, 10), Stamp(NoEvent, 0)}

DupSlots ==
  {f \in [DupIds -> DupValues] :
     \A k \in DupKeys :
        f[deterministicIdFor(k)].rhinoRowId = k \/ f[deterministicIdFor(k)].status = "absent"}

(* calendars with several events stored for one key *)
DupStore == {[i \in {j \in DupIds : f[j].status # "absent"} |-> f[i]] : f \in DupSlots}

InitDedupe == remote \in DupStore /\ now \in NowValues /\ options = "" /\ InitRest

(* the keys of the Map groups, in insertion order *)
RECURSIVE GroupKeys(_, _)
GroupKeys(items, seen) ==
  IF items = <<>> THEN <<>>
  ELSE LET key == remote[Head(items)].rhinoRowId
       IN IF key = NoRowId \/ key \in seen
          THEN GroupKeys(Tail(items), seen)
          ELSE <<key>> \o GroupKeys(Tail(items), seen \cup {key})

Group(items, key) == SelectSeq(items, LAMBDA i : remote[i].rhinoRowId = key)

(* list.slice().sort((a, b) => new Date(b.updated || 0) - new Date(a.updated || 0))[0]:
   the sort is stable, so of several latest members the first listed comes first *)
latestUpdated(list) ==
  list[CHOOSE i \in 1..Len(list) :
         /\ \A j \in 1..Len(list) : remote[list[j]].updated <= remote[list[i]].updated
         /\ \A j \in 1..(i - 1) : remote[list[j]].updated < remote[list[i]].updated]

(* variant: the member with the deterministic id is not preferred *)
keeper_Latest(key, list) == latestUpdated(list)

keeper(key, list) ==
  IF \E i \in 1..Len(list) : list[i] = deterministicIdFor(key)
  THEN deterministicIdFor(key)
  ELSE latestUpdated(list)

(* the events the two loops reach without `continue`, in order *)
RECURSIVE ToDelete(_, _)
ToDelete(items, keys) ==
  IF keys = <<>> THEN <<>>
  ELSE LET list == Group(items, Head(keys))
       IN (IF Len(list) <= 1 THEN <<>>
           ELSE SelectSeq(list, LAMBDA i : i # keeper(Head(keys), list)))
          \o ToDelete(items, Tail(keys))

DedupeList ==
  /\ pc = "idle"
  /\ \E arg \in OptionArgs : options' = arg
  /\ before' = remote
  /\ \/ \E f \in Faults :
          /\ lastCall' = Call("list", <<>>, f)
          /\ pending' = <<>>
          /\ pc' = "dedupe_failed"
          /\ thrown' = f
          /\ clean' = FALSE
     \/ \E items \in ListOrders(remote, ListedFrom(remote, now)) :
          /\ lastCall' = Call("list", <<>>, NoError)
          /\ pending' = ToDelete(items, GroupKeys(items, {}))
          /\ pc' = IF dryRun(options') \/ pending' = <<>> THEN "dedupe_done" ELSE "dedupe_delete"
          /\ UNCHANGED <<thrown, clean>>
  /\ UNCHANGED <<remote, now, interactive, googleEvents, idx, rhinoEvents, retrying,
                 authorizeCalls, tokenDeletes, results, prev>>
  /\ UNCHANGED callerVars
  /\ UNCHANGED sideVars

(* one delete of the inner loop; a failure is caught and logged *)
DedupeDelete ==
  /\ pc = "dedupe_delete"
  /\ \/ \E f \in Faults :
          /\ lastCall' = Call("delete", Head(pending), f)
          /\ clean' = FALSE
          /\ UNCHANGED remote
     \/ IF Exists(remote, Head(pending))
        THEN /\ remote' = ApiDelete(remote, Head(pending))
             /\ lastCall' = Call("delete", Head(pending), NoError)
             /\ UNCHANGED clean
        ELSE /\ lastCall' = Call("delete", Head(pending), ErrNotFound)
             /\ clean' = FALSE
             /\ UNCHANGED remote
  /\ pending' = Tail(pending)
  /\ pc' = IF Len(pending) = 1 THEN "dedupe_done" ELSE "dedupe_delete"
  /\ UNCHANGED <<now, interactive, googleEvents, idx, rhinoEvents, retrying,
                 authorizeCalls, tokenDeletes, results, thrown, prev, options, before>>
  /\ UNCHANGED callerVars
  /\ UNCHANGED sideVars

DedupeReturns ==
  /\ pc \in {"dedupe_done", "dedupe_failed"}
  /\ pc' = "idle"
  /\ options' = ""
  /\ pending' = <<>>
  /\ before' = <<>>
  /\ thrown' = NoError
  /\ lastCall' = NoCall
  /\ clean' = TRUE
  /\ UNCHANGED <<remote, now, interactive, googleEvents, idx, rhinoEvents, retrying,
                 authorizeCalls, tokenDeletes, results, prev>>
  /\ UNCHANGED callerVars
  /\ UNCHANGED sideVars

NextDedupe == DedupeList \/ DedupeDelete \/ DedupeReturns

SpecDedupe == InitDedupe /\ [][NextDedupe]_vars

(* ---- every operation of the program, from a calendar it has never written ---- *)
InitFresh ==
  /\ remote \in {s \in AnyStore : \A i \in DOMAIN s : ~IsRhino(s[i])}
  /\ now \in NowValues
  /\ options = ""
  /\ InitRest

(* two steps are left out because they cannot happen here, which
   C28_IdsFollowKeys shows: the fallback delete of purgeRhinoEvents, reached
   only when a listed event is not under its deterministic id, and the delete
   loop of dedupeRhino, which runs only for a key stored on two listed events *)
NextFresh ==
  \/ StartRun
  \/ ExtractFail
  \/ Preflight
  \/ syncSchedule
  \/ syncJs
  \/ PurgeList
  \/ PurgeDeleteExpected
  \/ SyncGet
  \/ SyncUpdate
  \/ SyncInsert
  \/ Finish
  \/ Crash
  \/ Tick
  \/ DedupeList
  \/ DedupeReturns

SpecFresh == InitFresh /\ [][NextFresh]_vars

(* ---- two runs of getSchedule at the same time ---- *)
(* the calendars the program's own cycles leave: an owner-tagged event sits
   under the deterministic id of its key *)
InitPair ==
  /\ remote \in {s \in AnyStore :
                   \A i \in DOMAIN s : IsRhino(s[i]) => i = deterministicIdFor(s[i].rhinoRowId)}
  /\ now \in NowValues
  /\ options = ""
  /\ InitRest

(* what a run keeps for itself while the other run is served *)
RunState ==
  [ pc |-> pc, idx |-> idx, rhinoEvents |-> rhinoEvents, results |-> results,
    thrown |-> thrown, lastCall |-> lastCall, clean |-> clean ]

(* both requests arrive; each run scrapes the same rows and authorizes *)
StartPair ==
  /\ pc = "idle"
  /\ other = NoRun
  /\ \E rows \in Scrapes :
       /\ futureEntries' = FilterEntries(rows)
       /\ googleEvents' = MapEvents(FilterEntries(rows))
  /\ method' = RunMethod
  /\ authorizeCalls' = 1
  /\ pc' = "purge_list"
  /\ other' = [RunState EXCEPT !.pc = "purge_list"]
  /\ UNCHANGED <<remote, now, interactive, idx, rhinoEvents, retrying, tokenDeletes,
                 results, thrown, lastCall, clean, prev, res, proc, events, probe>>
  /\ UNCHANGED dedupeVars

(* the event loop turns to the other run: every await of a remote call is a
   point where this may happen *)
Switch ==
  /\ other # NoRun
  /\ pc' = other.pc
  /\ idx' = other.idx
  /\ rhinoEvents' = other.rhinoEvents
  /\ results' = other.results
  /\ thrown' = other.thrown
  /\ lastCall' = other.lastCall
  /\ clean' = other.clean
  /\ other' = RunState
  /\ UNCHANGED <<remote, now, interactive, googleEvents, retrying, authorizeCalls,
                 tokenDeletes, prev, probe>>
  /\ UNCHANGED callerVars
  /\ UNCHANGED dedupeVars

(* the calendar answers every call; 404 and 409 are the only errors *)
PairPurgeList == PurgeList /\ lastCall'.err \notin Faults

PairPurgeDeleteExpected == PurgeDeleteExpected /\ lastCall'.err \notin Faults

PairPurgeDeleteFallback == PurgeDeleteFallback /\ lastCall'.err \notin Faults

PairSyncGet == SyncGet /\ lastCall'.err \notin Faults

PairSyncUpdate == SyncUpdate /\ lastCall'.err \notin Faults

PairSyncInsert == SyncInsert /\ lastCall'.err \notin Faults

NextPair ==
  \/ StartPair
  \/ Switch
  \/ PairPurgeList
  \/ PairPurgeDeleteExpected
  \/ PairPurgeDeleteFallback
  \/ PairSyncGet
  \/ PairSyncUpdate
  \/ PairSyncInsert

SpecPair == InitPair /\ [][NextPair]_vars


(* ======================= the claims ======================= *)
DesiredKeys == {googleEvents[i].rowId : i \in 1..Len(googleEvents)}

AllSynced == \A i \in 1..Len(results) : results[i] \in {"created", "updated"}

(* an owner-tagged event that has not ended yet: what a list from now returns *)
FutureRhinoIds == {i \in DOMAIN remote : remote[i].end > now /\ remote[i].rhinoRowId # NoRowId}

FutureRhinoKeys == {remote[i].rhinoRowId : i \in FutureRhinoIds}

TaggedWith(k) == {i \in DOMAIN remote : remote[i].rhinoRowId = k}

(* C1: after a cycle whose purge returned normally and whose upserts all
   returned created or updated, the keys stored on the future owner-tagged
   events are exactly the keys of the desired set, from any starting calendar *)
C1_ManagedEqualsDesired ==
  (pc = "done" /\ AllSynced) => FutureRhinoKeys = DesiredKeys

(* C2: after a successful cycle every key of the desired set is stored on
   exactly one remote event, also with repeated keys in the desired list and
   with keys synced by earlier cycles *)
C2_OneEventPerDesiredKey ==
  (pc = "done" /\ AllSynced) => \A k \in DesiredKeys : Cardinality(TaggedWith(k)) = 1

C2_Witness ==
  /\ pc = "done" /\ AllSynced
  /\ Len(googleEvents) = 2
  /\ googleEvents[1].rowId = googleEvents[2].rowId
  /\ prev.kind = "clean"
  /\ results = <<"created", "updated">>
  /\ Cardinality(DOMAIN remote) >= 2

C4_SecondRunChangesNothing ==
  (pc = "done" /\ clean /\ prev.kind = "clean") => remote = prev.store


PurgeStates == {"purge_delete", "purge_fallback"}

SyncStates == {"sync_get", "sync_update", "sync_insert"}

(* C5: a purge delete that fails with anything but not-found ends the purge and
   the run at once: nothing is deleted afterwards, the error leaves getSchedule
   (as the diagnostic error where an expired credential meets a non-interactive
   context) and no addEvent call is made; the one exception is the expired
   credential that the interactive retry takes over *)
C5_PurgeFailureIsFatal ==
  [][ /\ ( /\ pc \in PurgeStates
           /\ lastCall'.op = "delete"
           /\ lastCall'.err.code \notin {0, 404}
           /\ ~(interactive /\ isExpiredTokenError(lastCall'.err) /\ ~retrying) )
         => /\ pc' = "failed"
            /\ remote' = remote
            /\ idx' = 0 /\ results' = <<>>
            /\ thrown' = IF isExpiredTokenError(lastCall'.err) /\ ~interactive
                         THEN ErrCloudDiagnostic ELSE lastCall'.err
      /\ (pc = "failed" \/ (pc = "exited" /\ thrown # NoError))
           => (remote' = remote /\ results' \in {results, <<>>} /\ pc' \in {"failed", "exited", "idle"})
    ]_vars

C5_Witness ==
  /\ pc = "failed"
  /\ lastCall.op = "delete" /\ lastCall.err = ErrServer
  /\ Len(rhinoEvents) >= 2
  /\ \A k \in 1..Len(rhinoEvents) : rhinoEvents[k].id \in DOMAIN remote
  /\ Len(googleEvents) > 0
  /\ results = <<>>

(* C6: a failing get, update or insert never leaves syncEvent as an exception:
   it becomes the "error" result of that event, the calendar stays as it is, and
   the loop goes on to the next desired event, in list order, until every
   desired event has had its addEvent call *)
C6_PerEventIsolation ==
  /\ [](pc = "done" => (idx = Len(googleEvents) /\ Len(results) = Len(googleEvents)))
  /\ [][ (pc \in SyncStates /\ thrown' # ErrCrash)
         => /\ pc' # "failed"
            /\ lastCall'.id = deterministicIdFor(googleEvents[idx + 1].rowId)
            /\ lastCall'.err.code \notin {0, 404}
                 => /\ results' = Append(results, "error")
                    /\ remote' = remote
                    /\ idx' = idx + 1
                    /\ pc' = IF idx + 1 < Len(googleEvents) THEN "sync_get" ELSE "done"
            /\ idx' \in {idx, idx + 1}
            /\ Len(results') = idx'
       ]_vars

C6_Witness == pc = "done" /\ results = <<"error", "created">>

(* C7: syncEvent for a desired event with key k: an existing event with id
   externalId(k) is overwritten in place (all fields and the owner tag, same id)
   and the result is "updated"; if there is none, one event is inserted under
   externalId(k) with owner tag k and the result is "created" *)
C7_UpdateOrInsert ==
  [][ (pc \in SyncStates /\ thrown' # ErrCrash)
      => LET ev == googleEvents[idx + 1]
             id == deterministicIdFor(ev.rowId)
             Written ==
               /\ remote'[id].summary = ev.summary
               /\ remote'[id].location = ev.location
               /\ remote'[id].description = ev.description
               /\ remote'[id].start = dateTime(ev.start)
               /\ remote'[id].end = dateTime(ev.end)
               /\ remote'[id].status = ev.status
               /\ remote'[id].rhinoRowId = ev.rowId
             Others == \A j \in (DOMAIN remote) \ {id} : j \in DOMAIN remote' /\ remote'[j] = remote[j]
         IN /\ (pc = "sync_get" /\ lastCall'.err = NoError)
                 => (id \in DOMAIN remote /\ pc' = "sync_update" /\ remote' = remote)
            /\ (pc = "sync_get" /\ lastCall'.err = ErrNotFound)
                 => (id \notin DOMAIN remote /\ pc' = "sync_insert" /\ remote' = remote)
            /\ (lastCall'.op = "update" /\ lastCall'.err = NoError)
                 => /\ id \in DOMAIN remote
                    /\ DOMAIN remote' = DOMAIN remote
                    /\ Written /\ Others
                    /\ results' = Append(results, "updated")
            /\ (lastCall'.op = "insert" /\ lastCall'.err = NoError)
                 => /\ id \notin DOMAIN remote
                    /\ DOMAIN remote' = (DOMAIN remote) \cup {id}
                    /\ Written /\ Others
                    /\ results' = Append(results, "created")
    ]_vars

C7_Witness ==
  /\ pc = "done"
  /\ results = <<"created", "updated">>
  /\ googleEvents[1] # googleEvents[2]
  /\ remote[deterministicIdFor(googleEvents[2].rowId)] = Resource(normalizeEventBody(googleEvents[2]))

(* C8: a purge deletes no remote event whose start time is already past,
   whichever id the delete goes to *)
C8_PurgeSparesStartedEvents ==
  [][ (pc \in PurgeStates)
      => (\A i \in DOMAIN remote : i \notin DOMAIN remote' => (remote[i].start > now)) ]_vars

(* C9: from every calendar that complete or interrupted cycles of this program
   produce, a cycle that completes without failure ends with the future
   owner-tagged events being exactly the desired set, one event per key *)
C9_RerunRepairs ==
  (pc = "done" /\ clean)
    => /\ FutureRhinoKeys = DesiredKeys
       /\ \A k \in DesiredKeys : Cardinality({i \in FutureRhinoIds : remote[i].rhinoRowId = k}) = 1

C9_Witness ==
  /\ pc = "done" /\ clean
  /\ prev.kind = "broken"
  /\ googleEvents # <<>>

(* C10: in the interactive context an expired-credential failure of a remote
   call made for the purge or for an event's addEvent makes the driver delete
   the cached token, authorize once and run that operation again, once; an
   error of the retry ends the run *)
C10_ExpiredCredentialRetried ==
  [][ ( /\ interactive
        /\ pc \in PurgeStates \cup SyncStates \cup {"purge_list"}
        /\ thrown' # ErrCrash
        /\ isExpiredTokenError(lastCall'.err) )
      => IF ~retrying
         THEN /\ tokenDeletes' = tokenDeletes + 1
              /\ authorizeCalls' = authorizeCalls + 1
              /\ retrying'
              /\ idx' = idx
              /\ pc' = IF pc \in SyncStates THEN "sync_get" ELSE "purge_list"
         ELSE /\ pc' = "failed"
              /\ thrown' = lastCall'.err
              /\ tokenDeletes' = tokenDeletes
              /\ authorizeCalls' = authorizeCalls
    ]_vars

(* C11: in the cloud (non-interactive) context an expired-credential failure
   of any remote call made for the purge or for an event's addEvent ends the run
   with the diagnostic error: the cached token is not deleted, authorize is not
   called again, the operation is not retried and no later call is made *)
C11_CloudExpiredIsFatal ==
  [][ ( /\ ~interactive
        /\ pc \in PurgeStates \cup SyncStates \cup {"purge_list"}
        /\ thrown' # ErrCrash
        /\ isExpiredTokenError(lastCall'.err) )
      => /\ pc' = "failed"
         /\ thrown' = ErrCloudDiagnostic
         /\ tokenDeletes' = tokenDeletes
         /\ authorizeCalls' = authorizeCalls
         /\ ~retrying'
         /\ remote' = remote
    ]_vars

(* C12: a run in which at least one addEvent returned an error result is not
   reported to its caller like a run whose upserts all succeeded: no 200 with
   success true, no local success log *)
C12_UpsertFailureReported ==
  (pc = "exited" /\ \E i \in 1..Len(results) : results[i] = "error")
    => /\ res.status # 200
       /\ proc.log # "Schedule sync completed locally."

(* C13: no remote calendar call is made before extraction, filtering and
   mapping are over; a failed extraction ends the run with that error, without
   authorize(), without any calendar call and with the calendar unchanged *)
C13_ExtractionFirst ==
  /\ [](thrown \in ExtractionErrors
          => /\ pc \in {"failed", "exited"}
             /\ lastCall = NoCall
             /\ authorizeCalls = 0
             /\ tokenDeletes = 0
             /\ googleEvents = <<>>
             /\ (pc = "exited" /\ ~interactive => res.status = 500)
             /\ (pc = "exited" /\ interactive => proc.log = "Local sync failed:"))
  /\ [][ (pc = "idle" \/ thrown \in ExtractionErrors)
           => (remote' = remote /\ lastCall' = lastCall) ]_vars

C13_Witness ==
  /\ pc = "exited"
  /\ thrown = ErrTimeout
  /\ res.status = 500
  /\ \E i \in DOMAIN remote : IsRhino(remote[i]) /\ remote[i].end > now

(* C14: every request to syncSchedule gets exactly one response: OPTIONS gets
   204 with the CORS headers and getSchedule is not run; any other request gets
   200 with success true exactly when getSchedule completed and 500 with
   success false exactly when it threw *)
C14_HttpAlwaysResponds ==
  /\ [](res.sent <= 1)
  /\ []((pc = "exited" /\ ~interactive)
          => /\ res.sent = 1
             /\ res.cors
             /\ method = "OPTIONS"
                  => /\ res.status = 204 /\ res.body = ""
                     /\ authorizeCalls = 0 /\ lastCall = NoCall /\ googleEvents = <<>>
             /\ method # "OPTIONS"
                  => /\ res.status \in {200, 500}
                     /\ res.status = 200 <=> thrown = NoError
                     /\ res.status = 200 => res.body = "success: true, message, timestamp"
                     /\ res.status = 500 => res.body = "success: false, error, timestamp")
  /\ [][ (~interactive /\ pc \in {"done", "failed"} /\ thrown # ErrCrash)
           => (pc' = "exited" /\ res'.sent = 1) ]_vars

C14_Witness ==
  /\ pc = "exited"
  /\ res.status = 500
  /\ lastCall.op = "delete"
  /\ thrown = ErrServer

(* C15: sync.js ends with a non-zero exit status, after logging the failure,
   when getSchedule failed; it ends with status zero only when getSchedule
   completed *)
C15_LocalExitStatus ==
  (pc = "exited" /\ interactive)
    => /\ thrown # NoError
            => (proc.exited /\ proc.code # 0 /\ proc.log = "Local sync failed:")
       /\ (proc.exited /\ proc.code = 0) => thrown = NoError

(* C18: isEventCancelled is true exactly for an entry whose call-cancelled cell
   reads "call cancelled" in any case, or whose show contains "cancelled" in any
   case, or whose status contains "called out" in any case, an empty show or
   status matching nothing; no such entry is among the entries that are mapped
   and handed to addEvent *)
C18_CancelledNeverDesired ==
  /\ \A x \in Cells :
        isEventCancelled(Row(60, CellKind(x))) <=> x \in {"Call Cancelled", "CALL CANCELLED"}
  /\ \A i \in 1..Len(events) :
        isEventCancelled(events[i])
          <=> \/ events[i].isCallCancelled
              \/ events[i].show \in {"CANCELLED B", "Show Cancelled"}
              \/ events[i].status \in {"Called Out", "CALLED OUT - sick"}
  /\ pc = "mapped"
       => /\ Len(googleEvents) = Len(futureEntries)
          /\ \A i \in 1..Len(futureEntries) :
                /\ googleEvents[i] = toGoogleEvent(futureEntries[i])
                /\ ~futureEntries[i].isCallCancelled
                /\ futureEntries[i].show \notin {"CANCELLED B", "Show Cancelled"}
                /\ futureEntries[i].status \notin {"Called Out", "CALLED OUT - sick"}

C18_Witness ==
  /\ pc = "mapped"
  /\ Len(events) = 2
  /\ events[1].show = "CANCELLED B"
  /\ events[2].show = "Canceled C"
  /\ futureEntries = <<events[2]>>

(* C19: an entry passes the future filter only if its date and call time parse
   to an instant strictly later than the time of the run; an entry at or before
   now is dropped, and so is an entry whose text does not parse, without any
   error being raised *)
C19_FutureFilter ==
  pc = "mapped"
    => /\ thrown = NoError
       /\ \A i \in 1..Len(futureEntries) :
             /\ futureEntries[i].date = DateText(futureEntries[i].call)
             /\ futureEntries[i].callTime = CallTimeText(futureEntries[i].call)
             /\ futureEntries[i].call > now
       /\ \A i \in 1..Len(events) :
             (events[i].call <= now \/ <<events[i].date, events[i].callTime>> \in Malformed(events[i].call))
               => \A j \in 1..Len(futureEntries) : futureEntries[j] # events[i]

C19_Witness ==
  /\ pc = "mapped"
  /\ Len(events) = 2
  /\ events[1].callTime = <<"7", "30 PM">> /\ events[1].call > now
  /\ events[2].call = now /\ events[2].callTime = CallTimeText(now) /\ ~isEventCancelled(events[2])
  /\ futureEntries = <<>>

(* the six key fields of an entry, written out with the delimiter *)
KeyText(e) ==
  join(e.date, "/") \o " | " \o join(e.callTime, ":") \o " | " \o e.show \o " | " \o e.venue
  \o " | " \o e.position \o " | " \o e.type

(* C20: the natural key and the remote id of an entry are a function of its key
   fields alone: entries that agree on them get the same key and every calendar
   call made for them goes to the same id, whatever their status and notes, the
   run, the credential, the time and the calendar's contents *)
C20_IdFromKeyFieldsOnly ==
  /\ [](/\ Len(googleEvents) = Len(futureEntries)
        /\ \A i \in 1..Len(futureEntries) :
              googleEvents[i].rowId = KeyText(futureEntries[i])
        /\ \A i, j \in 1..Len(futureEntries) :
              (futureEntries[i].call = futureEntries[j].call
                 /\ futureEntries[i].show = futureEntries[j].show)
                => deterministicIdFor(googleEvents[i].rowId) = deterministicIdFor(googleEvents[j].rowId))
  /\ [][ (pc \in SyncStates /\ thrown' # ErrCrash)
           => /\ lastCall'.id = <<"sha256", KeyText(futureEntries[idx + 1])>>
              /\ (DOMAIN remote') \ (DOMAIN remote) \subseteq {lastCall'.id} ]_vars

C20_Witness ==
  /\ pc = "done"
  /\ Len(futureEntries) = 2
  /\ futureEntries[1].call = futureEntries[2].call
  /\ futureEntries[1].show = futureEntries[2].show
  /\ futureEntries[1].status # futureEntries[2].status
  /\ futureEntries[1].notes # futureEntries[2].notes
  /\ results = <<"created", "updated">>
  /\ lastCall.id = deterministicIdFor(googleEvents[1].rowId)

FutureGroup(k) == {i \in DOMAIN before : before[i].end > now /\ before[i].rhinoRowId = k}

(* C16: dedupeRhino with dryRun false, all deletes successful: of every key
   stored on more than one future event exactly one member remains, the one
   under deterministicIdFor(key) if the group has it, otherwise a most recently
   updated one; every other event of the calendar is left as it was *)
C16_DedupeKeepsOne ==
  (pc = "dedupe_done" /\ ~dryRun(options) /\ clean)
    => /\ \A i \in DOMAIN remote : remote[i] = before[i]
       /\ \A k \in DupKeys :
             IF Cardinality(FutureGroup(k)) > 1
             THEN \E keep \in FutureGroup(k) :
                    /\ FutureGroup(k) \cap DOMAIN remote = {keep}
                    /\ deterministicIdFor(k) \in FutureGroup(k) => keep = deterministicIdFor(k)
                    /\ deterministicIdFor(k) \notin FutureGroup(k)
                         => \A j \in FutureGroup(k) : before[j].updated <= before[keep].updated
             ELSE FutureGroup(k) \subseteq DOMAIN remote
       /\ \A i \in DOMAIN before :
             (before[i].rhinoRowId = NoRowId \/ before[i].end <= now) => i \in DOMAIN remote

C16_Witness ==
  /\ pc = "dedupe_done" /\ options = "{ dryRun: false }" /\ clean
  /\ \E k \in DupKeys :
        /\ FutureGroup(k) = DupRandIds
        /\ \E a, b \in DupRandIds : before[a].updated < before[b].updated /\ DOMAIN remote = {b}

(* C17: dedupeRhino called without options, or with dryRun true, deletes
   nothing: the calendar after the call is the calendar before it *)
C17_DryRunDeletesNothing ==
  /\ []((pc \in {"dedupe_delete", "dedupe_done"} /\ options \in {"undefined", "{ dryRun: true }"})
          => (remote = before /\ lastCall.op # "delete" /\ pc = "dedupe_done"))
  /\ [][ options' \in {"undefined", "{ dryRun: true }"} => remote' = remote ]_vars

C17_Witness ==
  /\ pc = "dedupe_done"
  /\ options = "undefined"
  /\ Len(pending) >= 2
  /\ remote = before

(* C25: a not-found answer of the calendar never ends the run: in syncEvent a
   not-found from get or update leads to the insert, and in purgeRhinoEvents a
   not-found from a delete never makes the purge throw *)
C25_NotFoundNeverFatal ==
  /\ [](pc = "failed" => thrown # ErrNotFound)
  /\ [][ (pc \in {"sync_get", "sync_update"} /\ lastCall'.err = ErrNotFound /\ thrown' # ErrCrash)
           => pc' = "sync_insert" ]_vars

(* C26: in the second of two consecutive successful cycles with the same
   desired list every desired event is reached through get and update, under
   the id it already had, and none through insert *)
C26_SecondCycleUpdates ==
  (pc = "done" /\ clean /\ prev.kind = "clean")
    => \A i \in 1..Len(results) : results[i] = "updated"

(* C27: when the get or the update of a syncEvent call fails with anything but
   not-found, the call returns the error result without issuing an insert and
   the calendar is as it was before the call *)
C27_FailedLookupInsertsNothing ==
  [][ ( /\ pc \in {"sync_get", "sync_update"}
        /\ thrown' # ErrCrash
        /\ lastCall'.err.code \notin {0, 404} )
      => /\ remote' = remote
         /\ pc' # "sync_insert"
         /\ lastCall'.op \in {"get", "update"}
         /\ results' = Append(results, "error")
         /\ idx' = idx + 1 ]_vars

C27_Witness ==
  /\ lastCall.op = "update"
  /\ lastCall.err = ErrServer
  /\ results = <<"created", "error">>
  /\ lastCall.id \in DOMAIN remote
  /\ pc = "done"

(* what the claims say of a call at clock time c, counted in minutes from
   2026-03-07 00:00: the text of a clock time, the clock times the zone has,
   and the title of a time of day *)
ClockText(c) ==
  ToString(YearFromTime(c)) \o "-" \o pad(MonthFromTime(c) + 1) \o "-" \o pad(DateFromTime(c))
  \o "T" \o pad(HourFromTime(c)) \o ":" \o pad(MinFromTime(c)) \o ":00"

OnTheClock(c) == ~(SpringForward <= c /\ c < SpringForward + 60)

(* the clock time that is d minutes of elapsed time away from clock time c *)
Elapsed(c, d) == LocalTime(UTC(c) + d)

TwoDigits(n) == ToString(n \div 10) \o ToString(n % 10)

Title(h, m) ==
  ToString(IF h % 12 = 0 THEN 12 ELSE h % 12)
  \o (IF m = 0 THEN "" ELSE ":" \o TwoDigits(m))
  \o (IF h < 12 THEN "am" ELSE "pm")

TitleAt(c) == Title(HourFromTime(c), MinFromTime(c))

CalledForms == {"called", "Called", "CALLED", "cAlLeD"}
TentativeForms == {"tentative", "Tentative", "TENTATIVE"}
CancelledForms == {"cancelled", "Cancelled", "CANCELLED", "canceled", "Canceled", "CANCELED"}

(* C21: for every date and call time the zone has, start is the call minus 30
   minutes and end is the call plus 5 hours, counted on the clock or as elapsed
   time, with the carry into the neighbouring day, month and year *)
C21_StartEndFromCall ==
  pc = "mapped"
    => \A i \in 1..Len(events) :
          LET c == events[i].call
              e == events[i]
              ev == googleEvents[i]
          IN OnTheClock(c)
               => /\ \/ ev.start = ClockText(c - 30) /\ ev.end = ClockText(c + 5 * 60)
                     \/ ev.start = ClockText(Elapsed(c, 0 - 30)) /\ ev.end = ClockText(Elapsed(c, 5 * 60))
                  /\ (e.date = <<"01", "01", "2026">> /\ e.callTime = <<"00", "30">>)
                       => ev.start = "2026-01-01T00:00:00"
                  /\ (e.date = <<"01", "01", "2026">> /\ e.callTime = <<"00", "15">>)
                       => ev.start = "2025-12-31T23:45:00"
                  /\ (e.date = <<"02", "28", "2026">> /\ e.callTime = <<"20", "00">>)
                       => ev.end = "2026-03-01T01:00:00"
                  /\ (e.date = <<"12", "31", "2025">> /\ e.callTime = <<"20", "00">>)
                       => ev.end = "2026-01-01T01:00:00"

(* C22: the summary of a row whose status is "called" in any case is
   "UNCONFIRMED => " and the show; of any other row it is the title of the call
   time minus 30 minutes, a space, and the show *)
C22_Summary ==
  pc = "mapped"
    => \A i \in 1..Len(events) :
          LET c == events[i].call
              e == events[i]
          IN OnTheClock(c)
               => IF e.status \in CalledForms
                  THEN googleEvents[i].summary = "UNCONFIRMED => " \o e.show
                  ELSE googleEvents[i].summary \in
                         { TitleAt(c - 30) \o " " \o e.show,
                           TitleAt(Elapsed(c, 0 - 30)) \o " " \o e.show }

(* C23: normalizeStatus gives tentative for "called" and "tentative", cancelled
   for "cancelled" and "canceled", in any case, and confirmed for every other
   status, the empty one, null and undefined included; the status of the body
   sent to the calendar is one of the three *)
C23_StatusNormalized ==
  pc = "mapped"
    => \A i \in 1..Len(events) :
          /\ googleEvents[i].status =
                (IF events[i].status \in CalledForms \cup TentativeForms THEN "tentative"
                 ELSE IF events[i].status \in CancelledForms THEN "cancelled"
                 ELSE "confirmed")
          /\ normalizeEventBody(googleEvents[i]).status \in {"confirmed", "tentative", "cancelled"}

C23_Witness ==
  /\ pc = "mapped"
  /\ events[1].status = "CANCELED"
  /\ googleEvents[1].status = "cancelled"

(* C24: formatTimeForTitle of HH:MM shows the hour as hours mod 12 with 12 for
   0, am exactly when hours < 12, and the minutes as :MM exactly when they are
   not 0 *)
C24_TitleFormat ==
  pc = "formatted"
    => /\ \E h \in 0..23 : probe.timeStr[1] = TwoDigits(h)
       /\ \E m \in 0..59 : probe.timeStr[2] = TwoDigits(m)
       /\ \A h \in 0..23 :
             probe.timeStr[1] = TwoDigits(h)
               => \A m \in 0..59 :
                     probe.timeStr[2] = TwoDigits(m)
                       => /\ probe.title = Title(h, m)
                          /\ (IF h % 12 = 0 THEN 12 ELSE h % 12) \in 1..12

C24_Witness ==
  /\ pc = "formatted"
  /\ probe.timeStr = <<"12", "05">>
  /\ probe.title = "12:05pm"

(* C29: two rows that differ in one of the six key fields have different
   natural keys, also when a field holds the delimiter *)
C29_KeysSeparate ==
  (pc = "mapped" /\ Len(events) = 2)
    => ( ( \/ events[1].date # events[2].date
           \/ events[1].callTime # events[2].callTime
           \/ events[1].show # events[2].show
           \/ events[1].venue # events[2].venue
           \/ events[1].position # events[2].position
           \/ events[1].type # events[2].type )
         => googleEvents[1].rowId # googleEvents[2].rowId )

(* C28: from a calendar with no owner-tagged event, after any number of
   complete or interrupted cycles and dedupeRhino calls, every owner-tagged
   event sits under deterministicIdFor of the key it stores, no two
   owner-tagged events store the same key; so the purge never needs its
   fallback delete and dedupeRhino finds nothing to delete *)
C28_IdsFollowKeys ==
  /\ \A i \in DOMAIN remote :
        IsRhino(remote[i]) => i = deterministicIdFor(remote[i].rhinoRowId)
  /\ \A i, j \in DOMAIN remote :
        (IsRhino(remote[i]) /\ remote[i].rhinoRowId = remote[j].rhinoRowId) => i = j
  /\ pc # "purge_fallback"
  /\ pending = <<>>

C28_Witness ==
  /\ pc = "dedupe_done"
  /\ options = "{ dryRun: false }"
  /\ prev.kind = "broken"
  /\ Cardinality({i \in DOMAIN remote : IsRhino(remote[i])}) = 2
  /\ \E i \in DOMAIN remote : ~IsRhino(remote[i])

BothEnded == pc \in {"done", "failed"} /\ other.pc \in {"done", "failed"}

(* C30: two runs with the same desired set, their remote calls interleaved in
   any order, no remote failure but 404 and 409: once both have ended the keys
   of the future owner-tagged events are exactly the desired keys, and each is
   stored on one event *)
C30_BothEndedDesired ==
  BothEnded
    => /\ FutureRhinoKeys = DesiredKeys
       /\ \A k \in DesiredKeys : Cardinality(TaggedWith(k)) = 1

====
